---- MODULE Spec2Model ----
(***************************************************************************)
(* A model of the flash documentation generator: the declaration resolver  *)
(* (src/builder/traits.rs), the Function entry (src/builder/function.rs)   *)
(* and the markdown engine (src/builder/markdown.rs).                      *)
(*                                                                         *)
(* Strings are sequences of one-character strings, so that prefix, suffix, *)
(* split, append and character filters are computed and not assumed.  A    *)
(* literal the code never looks into (a category directory, the reference  *)
(* site's host) is kept as one atom of such a sequence.                    *)
(***************************************************************************)
EXTENDS Integers, Sequences, FiniteSets

\* ------------------------------------------------------------------ bounds

\* Longest chain of semantic parents above a declaration.
MaxParents == 2
\* Most declarations the analyzer reports in one run.
MaxDecls == 3

\* ----------------------------------------------------------------- options

None == [some |-> FALSE]
Some(v) == [some |-> TRUE, val |-> v]

\* ----------------------------------------------------------------- strings

Digits == <<"0", "1", "2", "3", "4", "5", "6", "7", "8", "9">>

\* usize::to_string: the decimal digits of i, most significant first.
RECURSIVE UsizeToString(_)
UsizeToString(i) ==
    IF i < 10 THEN <<Digits[i + 1]>>
    ELSE UsizeToString(i \div 10) \o <<Digits[(i % 10) + 1]>>

\* str::starts_with
StartsWith(s, p) ==
    /\ Len(p) <= Len(s)
    /\ SubSeq(s, 1, Len(p)) = p

\* str::ends_with
EndsWith(s, p) ==
    /\ Len(p) <= Len(s)
    /\ SubSeq(s, Len(s) - Len(p) + 1, Len(s)) = p

\* str::split(c): the pieces between the occurrences of c, empty pieces kept.
RECURSIVE SplitFrom(_, _, _, _)
SplitFrom(s, c, i, cur) ==
    IF i > Len(s) THEN <<cur>>
    ELSE IF s[i] = c THEN <<cur>> \o SplitFrom(s, c, i + 1, <<>>)
    ELSE SplitFrom(s, c, i + 1, Append(cur, s[i]))

Split(s, c) == SplitFrom(s, c, 1, <<>>)

\* [String]::join(sep)
RECURSIVE JoinWith(_, _)
JoinWith(parts, sep) ==
    IF Len(parts) = 0 THEN <<>>
    ELSE IF Len(parts) = 1 THEN parts[1]
    ELSE parts[1] \o sep \o JoinWith(Tail(parts), sep)

\* ----------------------------------------------------------------- UrlPath
\* crate::url::UrlPath is an ordered sequence of path segments.

\* The segments of a list that are not empty, in order.
RECURSIVE DropEmpty(_)
DropEmpty(parts) ==
    IF Len(parts) = 0 THEN <<>>
    ELSE (IF Len(parts[1]) > 0 THEN <<parts[1]>> ELSE <<>>)
         \o DropEmpty(Tail(parts))

\* UrlPath::new_with_path: the segments, none of them empty.
NewWithPath(parts) == DropEmpty(parts)

\* UrlPath::parse: the segments between the slashes.
Parse(s) == Some(NewWithPath(Split(s, "/")))

\* UrlPath::join
Join(a, b) == a \o b

\* UrlPath::append_to_last: the suffix is appended to the final segment.
AppendToLast(u, suffix) ==
    IF Len(u) = 0 THEN u
    ELSE [u EXCEPT ![Len(u)] = @ \o suffix]

\* UrlPath::remove_extension: the final segment without a trailing ext.
RemoveExtension(u, ext) ==
    IF Len(u) > 0 /\ EndsWith(u[Len(u)], ext)
    THEN [u EXCEPT ![Len(u)] = SubSeq(@, 1, Len(@) - Len(ext))]
    ELSE u

\* UrlPath::to_absolute: the path under the configured site base.
ToAbsolute(u, config) ==
    (IF config.output_url.some THEN config.output_url.val ELSE <<>>) \o u

\* UrlPath::to_unencoded_string: "/" and the segments joined by "/".
ToUnencodedString(u) == <<"/">> \o JoinWith(u, <<"/">>)

\* ------------------------------------------------------------ declarations
\* A clang Entity is the chain of nodes from the declaration itself (first)
\* up through its semantic parents; each node has a kind, an optional name
\* and an optional definition file name.

Node(kind, name, def) == [kind |-> kind, name |-> name, def |-> def]

\* Entity::get_semantic_parent
GetSemanticParent(e) == IF Len(e) > 1 THEN Some(Tail(e)) ELSE None

\* Entity::get_name
GetName(e) == e[1].name

\* Entity::get_kind
GetKind(e) == e[1].kind

\* string literals of the code
StdName == <<"s", "t", "d">>
AnonName == <<"_", "a", "n", "o", "n">>
CppExt == <<".", "c", "p", "p">>
MdExt == <<".", "m", "d">>

UnexposedKinds ==
    {"TranslationUnit", "UnexposedDecl", "UnexposedAttr", "UnexposedExpr",
     "UnexposedStmt"}

\* A mutant of Ancestorage: every semantic parent is kept.
AncestorageAll(e) == [i \in 1..Len(e) |-> SubSeq(e, Len(e) - i + 1, Len(e))]

\* EntityMethods::ancestorage: the entities from the outermost kept ancestor
\* down to the declaration itself.
RECURSIVE Ancestorage(_)
Ancestorage(e) ==
    LET parent == GetSemanticParent(e)
        above ==
            IF parent.some
            THEN IF ~(GetName(parent.val).some
                      /\ EndsWith(GetName(parent.val).val, CppExt))
                 THEN IF GetKind(parent.val) \in UnexposedKinds
                      THEN <<>>
                      ELSE Ancestorage(parent.val)
                 ELSE <<>>
            ELSE <<>>
    IN  Append(above, e)

\* EntityMethods::full_name
FullName(e) ==
    LET anc == Ancestorage(e)
    IN  [i \in 1..Len(anc) |->
            IF GetName(anc[i]).some THEN GetName(anc[i]).val ELSE AnonName]

\* CppItemKind::from and CppItemKind::docs_category: the category directory
\* of a declaration's kind; kinds outside the mapping have none.
DocsCategory(e) ==
    CASE GetKind(e) \in {"FunctionDecl", "FunctionTemplate"} ->
            Some(<<<<"functions">>>>)
      [] GetKind(e) \in {"ClassDecl", "ClassTemplate"} -> Some(<<<<"classes">>>>)
      [] GetKind(e) = "StructDecl" -> Some(<<<<"classes">>>>)
      [] GetKind(e) = "Namespace" -> Some(<<<<"namespaces">>>>)
      [] OTHER -> None

\* EntityMethods::definition_file, reduced to the file's name.
DefinitionFile(e) == e[1].def

\* EntityMethods::rel_docs_url
RelDocsUrl(e) ==
    IF DocsCategory(e).some
    THEN Some(Join(DocsCategory(e).val, NewWithPath(FullName(e))))
    ELSE None

\* A mutant of abs_docs_url: the redirection looks at the declaration's own
\* (last) name instead of the outermost one.
AbsDocsUrlLast(e, config) ==
    IF FullName(e)[Len(FullName(e))] = StdName
    THEN IF DefinitionFile(e).some /\ GetName(e).some
         THEN Parse(<<"en.cppreference.com", "/", "w", "/", "cpp", "/">>
                    \o DefinitionFile(e).val \o <<"/">> \o GetName(e).val)
         ELSE None
    ELSE IF RelDocsUrl(e).some
         THEN Some(ToAbsolute(RelDocsUrl(e).val, config))
         ELSE None

\* EntityMethods::abs_docs_url
AbsDocsUrl(e, config) ==
    IF Len(FullName(e)) > 0 /\ FullName(e)[1] = StdName
    THEN IF DefinitionFile(e).some /\ GetName(e).some
         THEN Parse(<<"en.cppreference.com", "/", "w", "/", "cpp", "/">>
                    \o DefinitionFile(e).val \o <<"/">> \o GetName(e).val)
         ELSE None
    ELSE IF RelDocsUrl(e).some
         THEN Some(ToAbsolute(RelDocsUrl(e).val, config))
         ELSE None

\* ------------------------------------------------------------------- state

VARIABLES
    cfg,        \* the Config: output_url
    \* declaration resolver, applied to one declaration
    ent,        \* the declaration (an Entity)
    res,        \* the operation applied and its result
    \* one run of the build orchestrator
    decls,      \* the declarations the analyzer reports, in order
    entries,    \* the Function entries created so far
    navs,       \* the NavItems computed so far
    tasks,      \* the write tasks scheduled so far
    phase,      \* the orchestrator step
    \* markdown engine
    text,           \* the document handed to the markdown engine
    default_title,  \* extract_metadata_from_md: the default title given
    extracted,      \* extract_metadata_from_md: its result, once returned
    iter,               \* MDStream.iter: the lookahead cache and the parser
    url_fixer,          \* MDStream.url_fixer
    metadata,           \* MDStream.metadata
    insert_para_stage,  \* MDStream.insert_para_stage
    inside_code_block,  \* MDStream.inside_code_block
    out,        \* the events next() returned so far
    synth,      \* for each returned event, whether next() made it up
    fixed,      \* for each returned event, what the url_fixer returned for it
    mdone       \* next() returned None

rvars == <<ent, res>>
bvars == <<decls, entries, navs, tasks, phase>>
tvars == <<text, default_title, extracted>>
mvars == <<iter, url_fixer, metadata, insert_para_stage, inside_code_block,
           out, synth, fixed, mdone>>
vars == <<cfg, rvars, bvars, tvars, mvars>>

\* The parts of the state an operation of another component leaves alone.
IdleEnt == <<[kind |-> "FunctionDecl", name |-> None, def |-> None]>>
IdleCfg == [output_url |-> None]
IdleRes == [op |-> "none"]
IdleDoc == [front |-> None, body |-> <<>>]
IdleIter == [cache |-> <<>>, src |-> <<>>]

ResolverIdle == ent = IdleEnt /\ res = IdleRes
RunIdle ==
    /\ decls = <<>> /\ entries = <<>> /\ navs = <<>> /\ tasks = <<>>
    /\ phase = "idle"
TitleIdle == text = IdleDoc /\ default_title = None /\ extracted = None
StreamIdle ==
    /\ iter = IdleIter /\ url_fixer = None /\ metadata = None
    /\ insert_para_stage = "Dont" /\ inside_code_block = FALSE
    /\ out = <<>> /\ synth = <<>> /\ fixed = <<>> /\ mdone = FALSE

\* ------------------------------------------------------- input declarations

NameStd == StdName
NameN == <<"n">>
NameF == <<"f">>
NameF1 == <<"f", "1">>
NameCpp == <<"a">> \o CppExt
NameCc == <<"a", ".", "c", "c">>
FileVector == <<"vector">>

\* The parents a declaration may have: namespaces (named std, named n,
\* anonymous, and two misreported with the name of a source file, a.cpp and
\* a.cc), a class, a translation unit and an unexposed node.
ParentNodes ==
    { Node("Namespace", Some(NameStd), None),
      Node("Namespace", Some(NameN), None),
      Node("Namespace", None, None),
      Node("Namespace", Some(NameCpp), None),
      Node("Namespace", Some(NameCc), None),
      Node("ClassDecl", Some(NameN), None),
      Node("TranslationUnit", Some(NameCpp), None),
      Node("UnexposedDecl", Some(NameN), None) }

\* The declarations themselves: functions (named and anonymous), a function
\* named std, and a method, whose kind has no category.
HeadNodes ==
    { Node(k, n, d) :
        k \in {"FunctionDecl", "Method"},
        n \in {Some(NameF), Some(NameStd), None},
        d \in {None, Some(FileVector)} }

RECURSIVE ParentChains(_)
ParentChains(n) ==
    IF n = 0 THEN {<<>>}
    ELSE LET shorter == ParentChains(n - 1)
         IN  shorter \cup
             {Append(c, p) : c \in {x \in shorter : Len(x) = n - 1},
                             p \in ParentNodes}

Entities == {<<h>> \o c : h \in HeadNodes, c \in ParentChains(MaxParents)}

Configs ==
    { [output_url |-> None], [output_url |-> Some(<<<<"docs">>>>)] }


\* ------------------------------------------------------ resolver operations

ResolveInit ==
    /\ ent \in Entities
    /\ cfg \in Configs
    /\ res = IdleRes
    /\ RunIdle /\ TitleIdle /\ StreamIdle

\* full_name() is applied to the declaration.
CallFullName ==
    /\ res.op = "none"
    /\ res' = [op |-> "full_name", out |-> FullName(ent)]
    /\ UNCHANGED <<ent, cfg, bvars, tvars, mvars>>

\* rel_docs_url() is applied to the declaration.
CallRelDocsUrl ==
    /\ res.op = "none"
    /\ res' = [op |-> "rel_docs_url", out |-> RelDocsUrl(ent)]
    /\ UNCHANGED <<ent, cfg, bvars, tvars, mvars>>

\* abs_docs_url(config) is applied to the declaration.
CallAbsDocsUrl ==
    /\ res.op = "none"
    /\ res' = [op |-> "abs_docs_url", out |-> AbsDocsUrl(ent, cfg)]
    /\ UNCHANGED <<ent, cfg, bvars, tvars, mvars>>

ResolveNext == CallFullName \/ CallRelDocsUrl \/ CallAbsDocsUrl

SpecResolve == ResolveInit /\ [][ResolveNext]_vars

\* The first segments of the external reference-site URL.
ExternalSite == <<<<"en.cppreference.com">>, <<"w">>, <<"cpp">>>>

\* C3 as stated: after abs_docs_url, a declaration whose outermost name is
\* "std" has the external reference-site URL, and every other declaration
\* has its relative URL resolved against the site base.
C3_StdAlwaysExternal ==
    res.op = "abs_docs_url" =>
        IF FullName(ent)[1] = StdName
        THEN /\ res.out.some
             /\ Len(res.out.val) = 5
             /\ SubSeq(res.out.val, 1, 3) = ExternalSite
        ELSE /\ res.out.some
             /\ RelDocsUrl(ent).some
             /\ res.out.val = ToAbsolute(RelDocsUrl(ent).val, cfg)

\* C3 amended: after abs_docs_url, a declaration whose outermost name is
\* "std" has the external reference-site URL <header>/<own name> when its
\* definition file and own name are known and no URL otherwise, and never a
\* URL under the site base; every other declaration has its relative URL
\* resolved against the site base when its kind has a category and no URL
\* otherwise.
C3_StdNeverInternal ==
    res.op = "abs_docs_url" =>
        IF FullName(ent)[1] = StdName
        THEN /\ res.out.some <=> (ent[1].def.some /\ ent[1].name.some)
             /\ res.out.some =>
                   /\ res.out.val =
                        ExternalSite \o <<ent[1].def.val, ent[1].name.val>>
                   /\ RelDocsUrl(ent).some =>
                        res.out.val # ToAbsolute(RelDocsUrl(ent).val, cfg)
        ELSE /\ res.out.some <=> DocsCategory(ent).some
             /\ res.out.some =>
                   res.out.val =
                     (IF cfg.output_url.some THEN cfg.output_url.val ELSE <<>>)
                     \o RelDocsUrl(ent).val

\* A function f declared inside namespace std, with a known definition
\* file, was resolved under a configured site base.
C3_Witness ==
    /\ res.op = "abs_docs_url"
    /\ Len(ent) > 1
    /\ FullName(ent) = <<StdName, NameF>>
    /\ cfg.output_url.some
    /\ res.out.some

\* ------------------------------------------------------------ Function entry

\* Function::new
FunctionNew(entity) == [entity |-> entity, overload_index |-> None]

\* Function::add_overload_index
AddOverloadIndex(f, index) == [f EXCEPT !.overload_index = Some(index)]

\* The grave accent (U+0060), a character that no string literal of this
\* language can hold.
Backtick == "U+0060"

\* The literal of function.rs:31, with its two grave accents.
AnonymousFunction ==
    <<Backtick>> \o <<"A", "n", "o", "n", "y", "m", "o", "u", "s", " ", "f", "u", "n", "c", "t", "i", "o", "n">> \o <<Backtick>>

\* Function::name
Name(f) ==
    IF GetName(f.entity).some THEN GetName(f.entity).val
    ELSE AnonymousFunction

\* Function::url: the relative URL with the overload index, when one is
\* set, appended to its last segment; expect() panics when there is no
\* relative URL.
Url(f) ==
    IF RelDocsUrl(f.entity).some
    THEN [panic |-> FALSE,
          val |-> AppendToLast(RelDocsUrl(f.entity).val,
                     IF f.overload_index.some
                     THEN UsizeToString(f.overload_index.val)
                     ELSE <<>>)]
    ELSE [panic |-> TRUE]

\* NavItem::new_link
NewLink(name, url, icon) ==
    [kind |-> "Link", name |-> name, url |-> url, icon |-> icon]

\* Function::nav: a link to url(); the panic of url() unwinds through it.
Nav(f) ==
    IF Url(f).panic THEN [panic |-> TRUE]
    ELSE [panic |-> FALSE,
          val |-> NewLink(Name(f), Url(f).val, Some(<<"code", TRUE>>))]

\* Function::build, Builder::create_output_for: the page is rendered and a
\* write to the path of url() is scheduled; the panic of url() unwinds through it.
Build(f) ==
    IF Url(f).panic THEN [panic |-> TRUE]
    ELSE [panic |-> FALSE, val |-> [path |-> Url(f).val, state |-> "pending"]]

\* ------------------------------------------------------------------ one run

NameM == <<"m">>

\* The declarations of a run: the functions n::f and n::f1, an unnamed
\* function of n, and the method n::m, whose kind has no category.
RunDecls ==
    { <<Node(k, nm, None), Node("Namespace", Some(NameN), None),
        Node("TranslationUnit", Some(NameCpp), None)>> :
        <<k, nm>> \in {<<"FunctionDecl", Some(NameF)>>,
                     <<"FunctionDecl", Some(NameF1)>>,
                     <<"FunctionDecl", None>>,
                     <<"Method", Some(NameM)>>} }

RECURSIVE DeclLists(_)
DeclLists(n) ==
    IF n = 0 THEN {<<>>}
    ELSE LET shorter == DeclLists(n - 1)
         IN  shorter \cup
             {Append(l, d) : l \in {x \in shorter : Len(x) = n - 1},
                             d \in RunDecls}

RunInit ==
    /\ decls \in DeclLists(MaxDecls)
    /\ entries = <<>> /\ navs = <<>> /\ tasks = <<>>
    /\ phase = "enumerate"
    /\ cfg = IdleCfg /\ ResolverIdle /\ TitleIdle /\ StreamIdle

\* Step 1: the next declaration is wrapped as an Entry.  Declarations that
\* share their qualified name with another get their 0-based position among
\* them as overload index.
Enumerate ==
    /\ phase = "enumerate"
    /\ Len(entries) < Len(decls)
    /\ LET i == Len(entries) + 1
           same(j) == FullName(decls[j]) = FullName(decls[i])
           shared == \E j \in 1..Len(decls) : j # i /\ same(j)
           k == Cardinality({j \in 1..(i - 1) : same(j)})
           f == FunctionNew(decls[i])
       IN  entries' = Append(entries,
                         IF shared THEN AddOverloadIndex(f, k) ELSE f)
    /\ UNCHANGED <<decls, navs, tasks, phase, cfg, rvars, tvars, mvars>>

\* Every declaration is wrapped: navigation assembly starts.
StartNav ==
    /\ phase = "enumerate"
    /\ Len(entries) = Len(decls)
    /\ phase' = "nav"
    /\ UNCHANGED <<decls, entries, navs, tasks, cfg, rvars, tvars, mvars>>

\* Step 2: nav() of the next Entry; a panic ends the run.
NavEntry ==
    /\ phase = "nav"
    /\ Len(navs) < Len(entries)
    /\ LET r == Nav(entries[Len(navs) + 1])
       IN  IF r.panic
           THEN phase' = "aborted" /\ navs' = navs
           ELSE phase' = phase /\ navs' = Append(navs, r.val)
    /\ UNCHANGED <<decls, entries, tasks, cfg, rvars, tvars, mvars>>

\* A mutant of AssembleNav: rendering starts once one nav() is computed.
AssembleNavEarly ==
    /\ phase = "nav"
    /\ Len(navs) >= 1
    /\ phase' = "build"
    /\ UNCHANGED <<decls, entries, navs, tasks, cfg, rvars, tvars, mvars>>

\* The navigation tree is complete: rendering starts.
AssembleNav ==
    /\ phase = "nav"
    /\ Len(navs) = Len(entries)
    /\ phase' = "build"
    /\ UNCHANGED <<decls, entries, navs, tasks, cfg, rvars, tvars, mvars>>

\* Step 3: build() of the next Entry schedules its write task.
BuildEntry ==
    /\ phase = "build"
    /\ Len(tasks) < Len(entries)
    /\ LET r == Build(entries[Len(tasks) + 1])
       IN  IF r.panic
           THEN phase' = "aborted" /\ tasks' = tasks
           ELSE phase' = phase /\ tasks' = Append(tasks, r.val)
    /\ UNCHANGED <<decls, entries, navs, cfg, rvars, tvars, mvars>>

\* A scheduled task ends, with its page written or with an error.
TaskFinish ==
    /\ phase \in {"build", "await"}
    /\ \E t \in 1..Len(tasks), outcome \in {"written", "failed"} :
          /\ tasks[t].state = "pending"
          /\ tasks' = [tasks EXCEPT ![t].state = outcome]
    /\ UNCHANGED <<decls, entries, navs, phase, cfg, rvars, tvars, mvars>>

\* Every Entry is built: the orchestrator waits for the tasks.
StartAwait ==
    /\ phase = "build"
    /\ Len(tasks) = Len(entries)
    /\ phase' = "await"
    /\ UNCHANGED <<decls, entries, navs, tasks, cfg, rvars, tvars, mvars>>

\* A mutant of FinishAwait: the wait ends with the first finished task.
FinishAwaitFirst ==
    /\ phase = "await"
    /\ \E t \in 1..Len(tasks) : tasks[t].state # "pending"
    /\ phase' = "done"
    /\ UNCHANGED <<decls, entries, navs, tasks, cfg, rvars, tvars, mvars>>

\* Step 4: every task has ended and the results are merged.
FinishAwait ==
    /\ phase = "await"
    /\ \A t \in 1..Len(tasks) : tasks[t].state # "pending"
    /\ phase' = "done"
    /\ UNCHANGED <<decls, entries, navs, tasks, cfg, rvars, tvars, mvars>>

RunNext ==
    \/ Enumerate \/ StartNav \/ NavEntry \/ AssembleNav
    \/ BuildEntry \/ TaskFinish \/ StartAwait \/ FinishAwait

SpecRun == RunInit /\ [][RunNext]_vars

\* The relative URL of an Entry's declaration, without any suffix.
BareUrl(f) == RelDocsUrl(f.entity).val

\* C1: the URL nav() computed for an Entry that carries an overload index is
\* the bare relative URL when the index is 0, and the relative URL with the
\* decimal text of the index appended to its last segment when it is 1 or
\* more.
C1_OverloadUrl ==
    \A i \in 1..Len(navs) :
        entries[i].overload_index.some =>
            navs[i].url =
                IF entries[i].overload_index.val = 0
                THEN BareUrl(entries[i])
                ELSE AppendToLast(BareUrl(entries[i]),
                         UsizeToString(entries[i].overload_index.val))

\* C2: the URLs computed for the Entries of one run are pairwise distinct.
C2_UrlsDistinct ==
    \A i, j \in 1..Len(navs) : i # j => navs[i].url # navs[j].url

\* C10: an Entry whose URL cannot be resolved does not abort the run, and
\* at the end of the run every other Entry was navigated and built.
C10_FailureConfined ==
    /\ phase # "aborted"
    /\ phase = "done" =>
          \A i \in 1..Len(entries) :
              RelDocsUrl(entries[i].entity).some =>
                  \E t \in 1..Len(tasks) :
                      tasks[t].path = Url(entries[i]).val

\* ----------------------------------------------------------------- markdown
\* pulldown_cmark events: text runs, inline code, and the start and end of
\* a tag.

Text(t) == [type |-> "Text", text |-> t]
CodeEv(t) == [type |-> "Code", text |-> t]
Start(tag) == [type |-> "Start", tag |-> tag]
End(tag) == [type |-> "End", tag |-> tag]

Heading(lvl, frag, classes) ==
    [tag |-> "Heading", level |-> lvl, frag |-> frag, classes |-> classes]
Paragraph == [tag |-> "Paragraph"]
BlockQuote == [tag |-> "BlockQuote"]
CodeBlock == [tag |-> "CodeBlock"]
Link(ty, dest, title) ==
    [tag |-> "Link", ty |-> ty, dest |-> dest, title |-> title]
Image(ty, dest, title) ==
    [tag |-> "Image", ty |-> ty, dest |-> dest, title |-> title]
List == [tag |-> "List"]
Item == [tag |-> "Item"]

IsStart(ev, tagname) == ev.type = "Start" /\ ev.tag.tag = tagname
IsEnd(ev, tagname) == ev.type = "End" /\ ev.tag.tag = tagname

\* Metadata and Metadata::new_with_title
Metadata(title, icon, style) ==
    [title |-> title, description |-> None, icon |-> icon, order |-> None,
     style |-> style]
NewWithTitle(title) == Metadata(Some(title), None, "Default")

\* A document is its optional leading front-matter block and the markdown
\* events of the text after it.  A front-matter block is YAML that
\* serde_yaml either rejects or reads as an optional Metadata.
Doc(front, body) == [front |-> front, body |-> body]
Yaml(meta) == [ok |-> TRUE, meta |-> meta]
BadYaml == [ok |-> FALSE]

\* parse_markdown_metadata: the text after the front-matter block and the
\* metadata read from it; expect() panics on YAML that does not parse.
ParseMarkdownMetadata(doc) ==
    IF ~doc.front.some
    THEN [panic |-> FALSE, text |-> doc.body, meta |-> None]
    ELSE IF ~doc.front.val.ok
    THEN [panic |-> TRUE]
    ELSE [panic |-> FALSE, text |-> doc.body, meta |-> doc.front.val.meta]

\* extract_metadata_from_md, lines 283-293: the text runs from event i up
\* to the first heading end, concatenated.
RECURSIVE HeadingText(_, _)
HeadingText(events, i) ==
    IF i > Len(events) THEN <<>>
    ELSE IF IsEnd(events[i], "Heading") THEN <<>>
    ELSE IF events[i].type = "Text"
    THEN events[i].text \o HeadingText(events, i + 1)
    ELSE HeadingText(events, i + 1)

\* extract_metadata_from_md
ExtractMetadataFromMd(doc, dflt) ==
    LET parsed == ParseMarkdownMetadata(doc)
        meta == parsed.meta
        events == parsed.text
        title == HeadingText(events, 2)
    IN  IF parsed.panic THEN [panic |-> TRUE]
        ELSE [panic |-> FALSE, val |->
            IF meta.some /\ meta.val.title.some THEN meta
            ELSE IF Len(events) = 0 THEN None
            ELSE IF events[1].type # "Start" THEN None
            ELSE IF events[1].tag.tag # "Heading" THEN None
            ELSE IF meta.some
            THEN Some([meta.val EXCEPT !.title =
                        IF Len(title) > 0 THEN Some(title) ELSE dflt])
            ELSE IF Len(title) = 0
            THEN (IF dflt.some THEN Some(NewWithTitle(dflt.val)) ELSE None)
            ELSE Some(NewWithTitle(title))]

\* ------------------------------------------------------ character classes

UpperChars ==
    <<"A", "B", "C", "D", "E", "F", "G", "H", "I", "J", "K", "L", "M",
      "N", "O", "P", "Q", "R", "S", "T", "U", "V", "W", "X", "Y", "Z">>
LowerChars ==
    <<"a", "b", "c", "d", "e", "f", "g", "h", "i", "j", "k", "l", "m",
      "n", "o", "p", "q", "r", "s", "t", "u", "v", "w", "x", "y", "z">>

Range(f) == {f[i] : i \in DOMAIN f}

\* char::is_alphanumeric
IsAlphanumeric(c) == c \in Range(UpperChars) \cup Range(LowerChars) \cup Range(Digits)

\* char::is_whitespace
IsWhitespace(c) == c \in {" ", "\t", "\n"}

\* str::to_lowercase, one character
LowerChar(c) ==
    IF c \in Range(UpperChars)
    THEN LowerChars[CHOOSE i \in DOMAIN UpperChars : UpperChars[i] = c]
    ELSE c

\* str::to_lowercase
ToLowercase(s) == [i \in 1..Len(s) |-> LowerChar(s[i])]

\* markdown.rs:184: the characters that are alphanumeric or whitespace.
RECURSIVE NoPunctuation(_)
NoPunctuation(s) ==
    IF Len(s) = 0 THEN <<>>
    ELSE (IF IsAlphanumeric(s[1]) \/ IsWhitespace(s[1]) THEN <<s[1]>> ELSE <<>>)
         \o NoPunctuation(Tail(s))

\* str::split_whitespace: the maximal runs of characters that are not
\* whitespace.
RECURSIVE SplitWhitespaceFrom(_, _, _)
SplitWhitespaceFrom(s, i, cur) ==
    IF i > Len(s) THEN (IF Len(cur) > 0 THEN <<cur>> ELSE <<>>)
    ELSE IF IsWhitespace(s[i])
    THEN (IF Len(cur) > 0 THEN <<cur>> ELSE <<>>)
         \o SplitWhitespaceFrom(s, i + 1, <<>>)
    ELSE SplitWhitespaceFrom(s, i + 1, Append(cur, s[i]))

SplitWhitespace(s) == SplitWhitespaceFrom(s, 1, <<>>)

\* shared::fmt_emoji: every :name: whose name is a known shortcode is
\* replaced by its emoji.
Shortcodes == {<<"s">>}
EmojiOf(name) == <<"emoji">> \o name

RECURSIVE FmtEmojiFrom(_, _)
FmtEmojiFrom(t, i) ==
    IF i > Len(t) THEN <<>>
    ELSE IF t[i] = ":" /\ \E j \in (i + 1)..Len(t) : t[j] = ":"
    THEN LET j == CHOOSE k \in (i + 1)..Len(t) :
                    t[k] = ":" /\ \A m \in (i + 1)..(k - 1) : t[m] # ":"
             name == SubSeq(t, i + 1, j - 1)
         IN  IF name \in Shortcodes
             THEN EmojiOf(name) \o FmtEmojiFrom(t, j + 1)
             ELSE <<t[i]>> \o FmtEmojiFrom(t, i + 1)
    ELSE <<t[i]>> \o FmtEmojiFrom(t, i + 1)

FmtEmoji(t) == FmtEmojiFrom(t, 1)

\* ------------------------------------------------------- CachedLookahead
\* crate::lookahead::CachedLookahead<I, SIZE>: a cache of at most SIZE
\* events in front of the parser.

SIZE == 5

IterNew(events) == [cache |-> <<>>, src |-> events]

\* The cache filled from the parser up to n events.
RECURSIVE IterFill(_, _)
IterFill(it, n) ==
    IF Len(it.cache) >= n \/ Len(it.src) = 0 THEN it
    ELSE IterFill([cache |-> Append(it.cache, Head(it.src)),
                   src |-> Tail(it.src)], n)

\* CachedLookahead::next: the first cached event, else the parser's next.
IterNext(it) ==
    IF Len(it.cache) > 0
    THEN [it |-> [it EXCEPT !.cache = Tail(@)], val |-> Some(Head(it.cache))]
    ELSE IF Len(it.src) > 0
    THEN [it |-> [it EXCEPT !.src = Tail(@)], val |-> Some(Head(it.src))]
    ELSE [it |-> it, val |-> None]

\* CachedLookahead::peek: the next event, which stays in the cache.
IterPeek(it) ==
    LET f == IterFill(it, 1)
    IN  [it |-> f,
         val |-> IF Len(f.cache) > 0 THEN Some(f.cache[1]) ELSE None]

\* A mutant of IterLookahead: the events looked at are consumed.
IterLookaheadConsumes(it) ==
    LET f == IterFill(it, SIZE)
    IN  [it |-> [f EXCEPT !.cache = <<>>],
         val |-> [i \in 1..SIZE |->
                    IF i <= Len(f.cache) THEN Some(f.cache[i]) ELSE None]]

\* CachedLookahead::lookahead: the next SIZE events, None past the end of
\* the stream; they stay in the cache.
IterLookahead(it) ==
    LET f == IterFill(it, SIZE)
    IN  [it |-> f,
         val |-> [i \in 1..SIZE |->
                    IF i <= Len(f.cache) THEN Some(f.cache[i]) ELSE None]]

\* ---------------------------------------------------------- MDStream::next

\* markdown.rs:114-118: the peeked event ends the synthetic quote block.
PeekClosesQuote(it) ==
    LET pk == IterPeek(it).val
    IN  IF pk.some
        THEN IsStart(pk.val, "Heading") /\ pk.val.tag.level = 2
        ELSE TRUE

\* A mutant of TextEvent: emoji are formatted inside code blocks too.
TextEventAlways(inside, t) == Text(FmtEmoji(t))

\* markdown.rs:126-132: a text run as it is returned.
TextEvent(inside, t) ==
    IF inside THEN Text(t) ELSE Text(FmtEmoji(t))

\* The url_fixer closures: output_tutorial strips ".md"; another caller
\* may pass one that returns None.
FixerApply(f, url) ==
    IF f = "strip_md" THEN Some(RemoveExtension(url, MdExt)) ELSE None

\* markdown.rs:137-144: what the url_fixer returned for a link, None when
\* it was not called.
FixerResult(tag, fixer) ==
    IF tag.ty = "Inline" /\ StartsWith(tag.dest, <<"/">>) /\ fixer.some
    THEN FixerApply(fixer.val, NewWithPath(Split(tag.dest, "/")))
    ELSE None

\* A mutant of LinkTag: the destination is made absolute only when the
\* url_fixer rewrote it.
LinkTagFixedOnly(tag, fixer, config) ==
    LET r == FixerResult(tag, fixer)
    IN  [tag EXCEPT !.dest =
            IF r.some
            THEN ToUnencodedString(ToAbsolute(r.val, config))
            ELSE tag.dest]

\* markdown.rs:135-168: a Link or Image tag as it is returned.
LinkTag(tag, fixer, config) ==
    LET r == FixerResult(tag, fixer)
        new_dest == IF r.some THEN ToUnencodedString(r.val) ELSE tag.dest
    IN  [tag EXCEPT !.dest =
            IF StartsWith(tag.dest, <<"/">>) /\ Parse(new_dest).some
            THEN ToUnencodedString(ToAbsolute(Parse(new_dest).val, config))
            ELSE new_dest]

\* markdown.rs:173-192: the buffer after the lookahead window from slot i.
RECURSIVE ScanHeading(_, _, _)
ScanHeading(window, i, buf) ==
    IF i > Len(window) THEN buf
    ELSE IF window[i].some /\ window[i].val.type = "Text"
    THEN ScanHeading(window, i + 1,
            (IF Len(buf) > 0 THEN buf \o <<" ">> ELSE buf)
            \o ToLowercase(NoPunctuation(window[i].val.text)))
    ELSE IF window[i].some /\ IsEnd(window[i].val, "Heading") THEN buf
    ELSE ScanHeading(window, i + 1, buf)

\* A mutant of ScanHeading: the scan does not stop at the heading end.
RECURSIVE ScanHeadingPastEnd(_, _, _)
ScanHeadingPastEnd(window, i, buf) ==
    IF i > Len(window) THEN buf
    ELSE IF window[i].some /\ window[i].val.type = "Text"
    THEN ScanHeadingPastEnd(window, i + 1,
            (IF Len(buf) > 0 THEN buf \o <<" ">> ELSE buf)
            \o ToLowercase(NoPunctuation(window[i].val.text)))
    ELSE ScanHeadingPastEnd(window, i + 1, buf)

\* A mutant of HeadingAnchor.
HeadingAnchorPastEnd(window) ==
    JoinWith(SplitWhitespace(ScanHeadingPastEnd(window, 1, <<>>)), <<"-">>)

\* markdown.rs:172-196: the anchor made from the lookahead window.
HeadingAnchor(window) ==
    JoinWith(SplitWhitespace(ScanHeading(window, 1, <<>>)), <<"-">>)

\* markdown.rs:171: the heading gets a synthesized anchor.
NeedsAnchor(tag) == ~tag.frag.some /\ tag.level < 4

\* markdown.rs:170-205: a Heading start tag as it is returned.
HeadingTag(tag, window, meta) ==
    [tag EXCEPT
        !.frag = IF NeedsAnchor(tag) THEN Some(HeadingAnchor(window)) ELSE @,
        !.classes = IF meta.some /\ meta.val.style = "QnA" /\ tag.level < 3
                    THEN Append(@, "qna-question") ELSE @]

\* A mutant of HeadingEndStage: every heading below level 3 starts an
\* answer.
HeadingEndStageBelow3(meta, lvl, stage) ==
    IF meta.some /\ meta.val.style = "QnA" /\ lvl < 3 THEN "Start" ELSE stage

\* markdown.rs:213-219: insert_para_stage after a heading end.
HeadingEndStage(meta, lvl, stage) ==
    IF meta.some /\ meta.val.style = "QnA" /\ lvl = 2 THEN "Start" ELSE stage

\* ------------------------------------------------------- input documents

TxtAb == <<"A", ",", " ", "b", "!">>
TxtTrail == <<"b", " ", "!">>
TxtEmoji == <<":", "s", ":">>
TxtX == <<"x">>
DestMd == <<"/", "t", "/", "i", ".", "m", "d">>
DestPlain == <<"/", "t", "/", "i">>
DestRel == <<"x", ".", "m", "d">>

\* A heading block with the given inline events.
HeadingBlock(lvl, frag, inl) ==
    <<Start(Heading(lvl, frag, <<>>))>> \o inl
        \o <<End(Heading(lvl, frag, <<>>))>>
ParaBlock(inl) == <<Start(Paragraph)>> \o inl \o <<End(Paragraph)>>
CodeBlockOf(t) == <<Start(CodeBlock), Text(t), End(CodeBlock)>>
QuoteBlock(inner) == <<Start(BlockQuote)>> \o inner \o <<End(BlockQuote)>>
Linked(tag) == <<Start(tag), Text(TxtX), End(tag)>>

\* Most blocks of a document, and most inline events of a heading.
MaxBlocks == 3
MaxInlines == 6

MixedBlocks ==
    { HeadingBlock(2, None, <<Text(TxtAb)>>),
      HeadingBlock(1, None, <<Text(TxtTrail)>>),
      ParaBlock(<<Text(TxtEmoji)>>),
      ParaBlock(Linked(Link("Inline", DestMd, <<>>))),
      CodeBlockOf(TxtEmoji),
      QuoteBlock(HeadingBlock(2, None, <<Text(TxtAb)>>)) }

RECURSIVE DocsOf(_, _)
DocsOf(blocks, n) ==
    IF n = 0 THEN {<<>>}
    ELSE LET shorter == DocsOf(blocks, n - 1)
         IN  shorter \cup {d \o b : d \in shorter, b \in blocks}

DocsMixed == DocsOf(MixedBlocks, MaxBlocks)

DocsLinks ==
    { ParaBlock(Linked(tag)) :
        tag \in { Link(ty, dest, <<>>) :
                    ty \in {"Inline", "Reference"},
                    dest \in {DestMd, DestPlain, DestRel} }
           \cup { Image(ty, dest, <<>>) :
                    ty \in {"Inline", "Reference"},
                    dest \in {DestMd, DestPlain, DestRel} } }

HeadInlines == { <<Text(<<"A", ",">>)>>, <<Text(TxtTrail)>>, <<CodeEv(<<"c">>)>> }

HeadingDocs(n) ==
    { HeadingBlock(lvl, frag, inl) :
        lvl \in {2, 4}, frag \in {None, Some(<<"i", "d">>)},
        inl \in DocsOf(HeadInlines, n) }

DocsHeadings == HeadingDocs(MaxInlines)

\* A list of one item with the given blocks.
ListBlock(inner) ==
    <<Start(List), Start(Item)>> \o inner \o <<End(Item), End(List)>>

\* Most blocks of a document with nested blocks.
MaxNested == 2

\* Documents with a level-2 heading inside a list item, next to plain
\* headings, lists and paragraphs.
NestedBlocks ==
    { HeadingBlock(2, None, <<Text(TxtX)>>),
      ListBlock(HeadingBlock(2, None, <<Text(TxtX)>>)),
      ListBlock(ParaBlock(<<Text(TxtX)>>)),
      ParaBlock(<<Text(TxtX)>>) }

DocsNested == DocsOf(NestedBlocks, MaxNested)

\* ------------------------------------------------------- title extraction

TitleT == <<"T">>
TitleD == <<"D">>
IconI == <<"i">>

Fronts ==
    { None, Some(BadYaml), Some(Yaml(None)),
      Some(Yaml(Some(Metadata(None, Some(IconI), "Default")))),
      Some(Yaml(Some(Metadata(None, None, "QnA")))),
      Some(Yaml(Some(Metadata(Some(TitleT), Some(IconI), "QnA")))) }

MetaInit ==
    /\ text \in { Doc(f, b) : f \in Fronts,
                              b \in DocsMixed \cup HeadingDocs(2) }
    /\ default_title \in {None, Some(TitleD)}
    /\ extracted = None
    /\ cfg = IdleCfg /\ ResolverIdle /\ RunIdle /\ StreamIdle

\* extract_metadata_from_md(text, default_title) is called and returns or
\* panics.
ExtractMetadata ==
    /\ ~extracted.some
    /\ extracted' = Some(ExtractMetadataFromMd(text, default_title))
    /\ UNCHANGED <<text, default_title, cfg, rvars, bvars, mvars>>

MetaNext == ExtractMetadata

SpecMeta == MetaInit /\ [][MetaNext]_vars

\* The front-matter metadata of a document, when it parses to one.
FrontMeta(doc) ==
    IF doc.front.some /\ doc.front.val.ok THEN doc.front.val.meta ELSE None

FrontTitle(doc) ==
    IF FrontMeta(doc).some THEN FrontMeta(doc).val.title ELSE None

\* The index of the first heading start of a body, 0 when it has none.
FirstHeading(body) ==
    IF \E i \in 1..Len(body) : IsStart(body[i], "Heading")
    THEN CHOOSE i \in 1..Len(body) :
            /\ IsStart(body[i], "Heading")
            /\ \A j \in 1..(i - 1) : ~IsStart(body[j], "Heading")
    ELSE 0

\* extract_metadata_from_md returned (it did not panic on the front-matter).
Returned == extracted.some /\ ~extracted.val.panic

\* C4: when the front-matter gives no title and the body has no heading,
\* the result has the default title when one was given and is no metadata
\* when none was given.
C4_DefaultTitle ==
    (Returned /\ ~FrontTitle(text).some /\ FirstHeading(text.body) = 0) =>
        IF default_title.some
        THEN /\ extracted.val.val.some
             /\ extracted.val.val.val.title = default_title
        ELSE extracted.val.val = None

\* C5: a front-matter title is returned with the front-matter unchanged;
\* without one, when the body has a heading, the title is the concatenation
\* of the text runs of the first heading and the other front-matter fields
\* are kept.
C5_TitlePrecedence ==
    Returned =>
        IF FrontTitle(text).some
        THEN extracted.val.val = FrontMeta(text)
        ELSE FirstHeading(text.body) > 0 =>
            /\ extracted.val.val.some
            /\ extracted.val.val.val.title =
                 Some(HeadingText(text.body, FirstHeading(text.body) + 1))
            /\ FrontMeta(text).some =>
                 [extracted.val.val.val EXCEPT !.title = None]
                    = FrontMeta(text).val

\* ------------------------------------------------------------ fmt_markdown

Fixers == {None, Some("strip_md"), Some("decline")}

StreamFronts ==
    { None, Some(Yaml(None)),
      Some(Yaml(Some(Metadata(None, None, "Default")))),
      Some(Yaml(Some(Metadata(Some(TitleT), None, "QnA")))) }

\* fmt_markdown up to MDStream::new: the front-matter is parsed and the
\* stream is built over the events of the remaining text.
StreamInit ==
    /\ \/ /\ text \in {Doc(f, b) : f \in StreamFronts, b \in DocsMixed}
          /\ url_fixer \in Fixers
          /\ cfg = [output_url |-> Some(<<<<"docs">>>>)]
       \/ /\ text \in {Doc(None, b) : b \in DocsLinks}
          /\ url_fixer \in Fixers
          /\ cfg \in Configs
       \/ /\ text \in {Doc(None, b) : b \in DocsHeadings}
          /\ url_fixer = None
          /\ cfg = IdleCfg
       \/ /\ text \in {Doc(f, b) : f \in StreamFronts, b \in DocsNested}
          /\ url_fixer = None
          /\ cfg = IdleCfg
    /\ metadata = ParseMarkdownMetadata(text).meta
    /\ iter = IterNew(ParseMarkdownMetadata(text).text)
    /\ insert_para_stage = "Dont"
    /\ inside_code_block = FALSE
    /\ out = <<>> /\ synth = <<>> /\ fixed = <<>>
    /\ mdone = FALSE
    /\ default_title = None /\ extracted = None
    /\ ResolverIdle /\ RunIdle

\* next() returns ev; made == it is a synthetic event; fx == what the
\* url_fixer returned for it.
Emit(ev, made, fx) ==
    /\ out' = Append(out, ev)
    /\ synth' = Append(synth, made)
    /\ fixed' = Append(fixed, fx)

\* markdown.rs:110-112
NextQuoteStart ==
    /\ ~mdone
    /\ insert_para_stage = "Start"
    /\ insert_para_stage' = "ToEnd"
    /\ Emit(Start(BlockQuote), TRUE, None)
    /\ UNCHANGED <<iter, url_fixer, metadata, inside_code_block, mdone,
                   cfg, rvars, bvars, tvars>>

\* markdown.rs:113-122
NextQuoteEnd ==
    /\ ~mdone
    /\ insert_para_stage = "ToEnd"
    /\ PeekClosesQuote(iter)
    /\ iter' = IterPeek(iter).it
    /\ insert_para_stage' = "Dont"
    /\ Emit(End(BlockQuote), TRUE, None)
    /\ UNCHANGED <<url_fixer, metadata, inside_code_block, mdone,
                   cfg, rvars, bvars, tvars>>

\* next() goes on to pull an event: markdown.rs:123.
Pulls ==
    /\ ~mdone
    /\ insert_para_stage # "Start"
    /\ ~(insert_para_stage = "ToEnd" /\ PeekClosesQuote(iter))

Pulled ==
    IterNext(IF insert_para_stage = "ToEnd" THEN IterPeek(iter).it ELSE iter)

\* markdown.rs:123: the stream has ended.
NextNone ==
    /\ Pulls
    /\ ~Pulled.val.some
    /\ iter' = Pulled.it
    /\ mdone' = TRUE
    /\ UNCHANGED <<url_fixer, metadata, insert_para_stage, inside_code_block,
                   out, synth, fixed, cfg, rvars, bvars, tvars>>

\* markdown.rs:126-132
NextText ==
    /\ Pulls
    /\ Pulled.val.some
    /\ Pulled.val.val.type = "Text"
    /\ iter' = Pulled.it
    /\ Emit(TextEvent(inside_code_block, Pulled.val.val.text), FALSE, None)
    /\ UNCHANGED <<url_fixer, metadata, insert_para_stage, inside_code_block,
                   mdone, cfg, rvars, bvars, tvars>>

\* markdown.rs:135-168
NextLink ==
    /\ Pulls
    /\ Pulled.val.some
    /\ IsStart(Pulled.val.val, "Link") \/ IsStart(Pulled.val.val, "Image")
    /\ iter' = Pulled.it
    /\ Emit(Start(LinkTag(Pulled.val.val.tag, url_fixer, cfg)), FALSE,
            FixerResult(Pulled.val.val.tag, url_fixer))
    /\ UNCHANGED <<url_fixer, metadata, insert_para_stage, inside_code_block,
                   mdone, cfg, rvars, bvars, tvars>>

\* markdown.rs:170-205
NextHeadingStart ==
    /\ Pulls
    /\ Pulled.val.some
    /\ IsStart(Pulled.val.val, "Heading")
    /\ LET tag == Pulled.val.val.tag
           la == IterLookahead(Pulled.it)
       IN  /\ iter' = IF NeedsAnchor(tag) THEN la.it ELSE Pulled.it
           /\ Emit(Start(HeadingTag(tag, la.val, metadata)), FALSE, None)
    /\ UNCHANGED <<url_fixer, metadata, insert_para_stage, inside_code_block,
                   mdone, cfg, rvars, bvars, tvars>>

\* markdown.rs:206-209
NextCodeBlockStart ==
    /\ Pulls
    /\ Pulled.val.some
    /\ IsStart(Pulled.val.val, "CodeBlock")
    /\ iter' = Pulled.it
    /\ inside_code_block' = TRUE
    /\ Emit(Pulled.val.val, FALSE, None)
    /\ UNCHANGED <<url_fixer, metadata, insert_para_stage, mdone,
                   cfg, rvars, bvars, tvars>>

\* markdown.rs:213-221
NextHeadingEnd ==
    /\ Pulls
    /\ Pulled.val.some
    /\ IsEnd(Pulled.val.val, "Heading")
    /\ iter' = Pulled.it
    /\ insert_para_stage' =
          HeadingEndStage(metadata, Pulled.val.val.tag.level,
                          insert_para_stage)
    /\ Emit(Pulled.val.val, FALSE, None)
    /\ UNCHANGED <<url_fixer, metadata, inside_code_block, mdone,
                   cfg, rvars, bvars, tvars>>

\* markdown.rs:222-225
NextCodeBlockEnd ==
    /\ Pulls
    /\ Pulled.val.some
    /\ IsEnd(Pulled.val.val, "CodeBlock")
    /\ iter' = Pulled.it
    /\ inside_code_block' = FALSE
    /\ Emit(Pulled.val.val, FALSE, None)
    /\ UNCHANGED <<url_fixer, metadata, insert_para_stage, mdone,
                   cfg, rvars, bvars, tvars>>

\* markdown.rs:210, 226, 228: every other event is returned as it is.
NextOther ==
    /\ Pulls
    /\ Pulled.val.some
    /\ Pulled.val.val.type # "Text"
    /\ Pulled.val.val.type = "Start" =>
          Pulled.val.val.tag.tag \notin {"Link", "Image", "Heading", "CodeBlock"}
    /\ Pulled.val.val.type = "End" =>
          Pulled.val.val.tag.tag \notin {"Heading", "CodeBlock"}
    /\ iter' = Pulled.it
    /\ Emit(Pulled.val.val, FALSE, None)
    /\ UNCHANGED <<url_fixer, metadata, insert_para_stage, inside_code_block,
                   mdone, cfg, rvars, bvars, tvars>>

\* MDStream::next, one call.
StreamNext ==
    \/ NextQuoteStart \/ NextQuoteEnd \/ NextNone \/ NextText \/ NextLink
    \/ NextHeadingStart \/ NextCodeBlockStart \/ NextHeadingEnd
    \/ NextCodeBlockEnd \/ NextOther

SpecStream == StreamInit /\ [][StreamNext]_vars

\* ------------------------------------------------- properties of the stream

\* The events of the document body, which the parser yields.
Input == text.body

\* The returned event i is the Input event of this index (for an event
\* that is not synthetic).
InputIndex(i) == Cardinality({j \in 1..i : ~synth[j]})

IsH2Start(ev) == IsStart(ev, "Heading") /\ ev.tag.level = 2
IsH2End(ev) == IsEnd(ev, "Heading") /\ ev.tag.level = 2

SynthStart(i) == synth[i] /\ out[i] = Start(BlockQuote)
SynthEnd(i) == synth[i] /\ out[i] = End(BlockQuote)

\* The synthetic quote blocks open when event i is returned.
OpenQuotes(i) ==
    Cardinality({j \in 1..(i - 1) : SynthStart(j)})
    - Cardinality({j \in 1..(i - 1) : SynthEnd(j)})

\* Event i belongs to a level-2 heading, its start and end included.
InH2(i) ==
    \E a \in 1..i :
        /\ ~synth[a] /\ IsH2Start(out[a])
        /\ \A b \in a..(i - 1) : ~(~synth[b] /\ IsH2End(out[b]))

\* Event i comes after the end of a level-2 heading.
AfterH2(i) == \E a \in 1..(i - 1) : ~synth[a] /\ IsH2End(out[a])

StyleQnA == metadata.some /\ metadata.val.style = "QnA"

\* C6: with style qna, a synthetic quote-block start follows every level-2
\* heading end at once and nothing else starts one; its end comes right
\* before the next level-2 heading start or at the end of the stream; so
\* every event after a level-2 heading and outside level-2 headings is
\* inside exactly one synthetic quote block.  With any other style, or no
\* front-matter, no synthetic event is returned.
C6_QnAQuotes ==
    /\ StyleQnA =>
        /\ \A i \in 1..Len(out) :
            /\ (~synth[i] /\ IsH2End(out[i])) =>
                  IF i < Len(out) THEN SynthStart(i + 1) ELSE ~mdone
            /\ SynthStart(i) =>
                  i > 1 /\ ~synth[i - 1] /\ IsH2End(out[i - 1])
            /\ SynthEnd(i) =>
                  IF i < Len(out)
                  THEN ~synth[i + 1] /\ IsH2Start(out[i + 1])
                  ELSE \/ InputIndex(i) = Len(Input)
                       \/ IsH2Start(Input[InputIndex(i) + 1])
            /\ ~synth[i] =>
                  OpenQuotes(i) = IF AfterH2(i) /\ ~InH2(i) THEN 1 ELSE 0
        /\ mdone => OpenQuotes(Len(out) + 1) = 0
    /\ ~StyleQnA => \A i \in 1..Len(out) : ~synth[i]

\* With style qna the stream ended after two answers, the first one closed
\* before the second level-2 heading and holding a paragraph.
C6_Witness ==
    /\ StyleQnA /\ mdone
    /\ \E i, j, k \in 1..Len(out) :
          /\ i < j /\ j < k
          /\ SynthStart(i) /\ IsStart(out[i + 1], "Paragraph")
          /\ SynthEnd(j) /\ IsH2Start(out[j + 1])
          /\ SynthEnd(k) /\ k = Len(out)

\* The destination as an absolute URL under the site base.
AbsoluteDest(url) == ToUnencodedString(ToAbsolute(url, cfg))

\* C7: a Link or Image start whose destination starts with "/" is returned
\* with the absolute URL, under the site base, of the path the url_fixer
\* returned for it, or of its own destination when the url_fixer returned
\* none; the tag is otherwise unchanged.
C7_RootLinksAbsolute ==
    \A i \in 1..Len(out) :
        LET in == Input[InputIndex(i)]
        IN  (/\ ~synth[i]
             /\ IsStart(in, "Link") \/ IsStart(in, "Image")
             /\ StartsWith(in.tag.dest, <<"/">>)) =>
                /\ out[i].type = "Start"
                /\ out[i].tag =
                     [in.tag EXCEPT !.dest =
                        IF fixed[i].some
                        THEN AbsoluteDest(fixed[i].val)
                        ELSE AbsoluteDest(Parse(in.tag.dest).val)]
                /\ cfg.output_url.some =>
                     StartsWith(out[i].tag.dest,
                                ToUnencodedString(cfg.output_url.val))

\* "/t/i.md" was rewritten by the ".md"-stripping url_fixer and returned as
\* "/docs/t/i"; a reference link was made absolute without a rewrite.
C7_Witness ==
    /\ cfg.output_url.some
    /\ url_fixer = Some("strip_md")
    /\ \E i \in 1..Len(out) :
          /\ IsStart(out[i], "Link")
          /\ Input[InputIndex(i)].tag.dest = DestMd
          /\ fixed[i].some
          /\ out[i].tag.dest = <<"/", "docs", "/", "t", "/", "i">>

\* The text runs of the heading that starts at Input event k: those before
\* its end event and among the SIZE events after its start.
RECURSIVE OwnTexts(_, _)
OwnTexts(k, i) ==
    IF i > Len(Input) \/ i > k + SIZE THEN <<>>
    ELSE IF IsEnd(Input[i], "Heading") THEN <<>>
    ELSE IF Input[i].type = "Text"
    THEN <<Input[i].text>> \o OwnTexts(k, i + 1)
    ELSE OwnTexts(k, i + 1)

\* Every whitespace run replaced by one hyphen.
RECURSIVE Hyphenate(_, _)
Hyphenate(s, afterSpace) ==
    IF Len(s) = 0 THEN <<>>
    ELSE IF IsWhitespace(s[1])
    THEN (IF afterSpace THEN <<>> ELSE <<"-">>) \o Hyphenate(Tail(s), TRUE)
    ELSE <<s[1]>> \o Hyphenate(Tail(s), FALSE)

\* Leading and trailing whitespace dropped.
RECURSIVE TrimWhitespace(_)
TrimWhitespace(s) ==
    IF Len(s) = 0 THEN s
    ELSE IF IsWhitespace(s[1]) THEN TrimWhitespace(Tail(s))
    ELSE IF IsWhitespace(s[Len(s)])
    THEN TrimWhitespace(SubSeq(s, 1, Len(s) - 1))
    ELSE s

\* The text runs joined by single spaces, lowercased, without the
\* characters that are neither alphanumeric nor whitespace.
Slugged(texts) == NoPunctuation(ToLowercase(JoinWith(texts, <<" ">>)))

\* The heading starts of the output satisfy Anchor(texts, frag).
HeadingAnchors(Anchor(_)) ==
    \A i \in 1..Len(out) :
        LET k == InputIndex(i)
        IN  (~synth[i] /\ IsStart(Input[k], "Heading")) =>
                /\ IsStart(out[i], "Heading")
                /\ out[i].tag.level = Input[k].tag.level
                /\ out[i].tag.frag =
                     IF NeedsAnchor(Input[k].tag)
                     THEN Some(Anchor(OwnTexts(k, k + 1)))
                     ELSE Input[k].tag.frag

\* C8 as stated: a heading start without fragment and of level below 4 is
\* returned with the anchor made of its own text runs joined by spaces,
\* lowercased, punctuation removed, every whitespace run replaced by a
\* hyphen; any other heading keeps its fragment.
C8_AnchorHyphenated ==
    LET Anchor(texts) == Hyphenate(Slugged(texts), FALSE)
    IN  HeadingAnchors(Anchor)

\* C8 amended: as C8, with leading and trailing whitespace dropped before
\* the whitespace runs are replaced by hyphens.
C8_AnchorTrimmed ==
    LET Anchor(texts) == Hyphenate(TrimWhitespace(Slugged(texts)), FALSE)
    IN  HeadingAnchors(Anchor)

\* The heading "A, b!" of level 2 was returned with the anchor "a-b".
C8_Witness ==
    \E i \in 1..Len(out) :
        /\ IsStart(out[i], "Heading")
        /\ ~Input[InputIndex(i)].tag.frag.some
        /\ Input[InputIndex(i) + 1] = Text(TxtAb)
        /\ out[i].tag.frag = Some(<<"a", "-", "b">>)

\* Input event k lies between a code-block start and its end.
InCodeBlock(k) ==
    Cardinality({j \in 1..(k - 1) : IsStart(Input[j], "CodeBlock")})
    > Cardinality({j \in 1..(k - 1) : IsEnd(Input[j], "CodeBlock")})

\* C9: a text run inside a code block is returned unchanged, one outside
\* every code block is returned with its emoji shorthand substituted, and
\* inside_code_block is true exactly when the events consumed so far leave
\* a code block open.
C9_EmojiOutsideCode ==
    /\ \A i \in 1..Len(out) :
          LET k == InputIndex(i)
          IN  (~synth[i] /\ Input[k].type = "Text") =>
                 out[i] = IF InCodeBlock(k) THEN Input[k]
                          ELSE Text(FmtEmoji(Input[k].text))
    /\ inside_code_block = InCodeBlock(InputIndex(Len(out)) + 1)

\* The shorthand ":s:" was returned unchanged from inside a code block and
\* substituted in a later paragraph.
C9_Witness ==
    \E i, j \in 2..Len(out) :
        /\ i < j
        /\ IsStart(out[i - 1], "CodeBlock")
        /\ out[i] = Text(TxtEmoji)
        /\ out[j] = Text(EmojiOf(<<"s">>))
        /\ Input[InputIndex(j)] = Text(TxtEmoji)

\* ------------------------------------------------- properties of the run

\* The scheduler runs every spawned task to its end and the orchestrator
\* resumes when the handles it awaits are ready.
SpecRunFair == SpecRun /\ WF_vars(TaskFinish) /\ WF_vars(FinishAwait)

\* C11: a step in which a task fails changes no other task and does not end
\* or abort the run; the wait ends only when every scheduled task has ended,
\* written or failed; and once the orchestrator waits, every task does end
\* and the wait returns.
C11_TaskIsolation ==
    /\ [][\A t \in 1..Len(tasks) :
            (tasks[t].state = "pending" /\ tasks'[t].state = "failed") =>
                /\ phase' = phase
                /\ \A u \in 1..Len(tasks) : u # t => tasks'[u] = tasks[u]]_vars
    /\ [](phase = "done" =>
            /\ Len(tasks) = Len(entries)
            /\ \A t \in 1..Len(tasks) : tasks[t].state # "pending")
    /\ (phase = "await") ~> (phase = "done")

\* The wait ended with one task failed and its siblings written.
C11_Witness ==
    /\ phase = "done"
    /\ Len(tasks) = MaxDecls
    /\ tasks[1].state = "failed"
    /\ \A t \in 2..Len(tasks) : tasks[t].state = "written"

\* C12: when a build() has been called, or may be called, every declaration
\* was enumerated and nav() was computed for every Entry; no task exists
\* before that.
C12_NavBeforeBuild ==
    (Len(tasks) > 0 \/ phase \in {"build", "await", "done"}) =>
        /\ Len(entries) = Len(decls)
        /\ Len(navs) = Len(entries)
        /\ \A i \in 1..Len(navs) : navs[i] = Nav(entries[i]).val

\* Every Entry was navigated and built, and the task of the second Entry
\* ended while the task of the first was still pending.
C12_Witness ==
    /\ Len(tasks) = MaxDecls
    /\ Len(navs) = MaxDecls
    /\ tasks[1].state = "pending"
    /\ tasks[2].state = "written"

\* --------------------------------------------- properties of the resolver

\* The extensions of C++ source files.
SourceExts == {CppExt, <<".", "c", "c">>, <<".", "c", "x", "x">>}

\* The node ends the scope chain: a translation unit, an unexposed node, or
\* a node whose name ends in one of the extensions exts.
Terminator(n, exts) ==
    \/ n.kind \in UnexposedKinds
    \/ n.name.some /\ \E x \in exts : EndsWith(n.name.val, x)

\* The position in the chain of the first parent that ends it; past the
\* chain when there is none.
FirstTerminator(e, exts) ==
    IF \E j \in 2..Len(e) : Terminator(e[j], exts)
    THEN CHOOSE j \in 2..Len(e) :
            /\ Terminator(e[j], exts)
            /\ \A k \in 2..(j - 1) : ~Terminator(e[k], exts)
    ELSE Len(e) + 1

\* The names of the declaration and of its parents below the first
\* terminator, outermost first, the placeholder for an unnamed one.
QualifiedName(e, exts) ==
    LET n == FirstTerminator(e, exts) - 1
    IN  [i \in 1..n |->
            IF e[n - i + 1].name.some THEN e[n - i + 1].name.val
            ELSE AnonName]

\* C13 as stated: full_name() of a declaration is the list of the names of
\* its semantic parents below the first parent that is a translation unit,
\* an unexposed node or a node whose name ends in a C++ source-file
\* extension, outermost first and its own name last, with "_anon" for an
\* unnamed node.
C13_QualifiedName ==
    res.op = "full_name" => res.out = QualifiedName(ent, SourceExts)

\* C13 amended: the same, with ".cpp" the only extension that ends the
\* chain; a parent named with another source-file extension is kept.
C13_QualifiedNameCpp ==
    res.op = "full_name" => res.out = QualifiedName(ent, {CppExt})

\* full_name() of a function in a namespace named a.cc, which is kept, that
\* lies in a namespace named a.cpp, which ends the chain.
C13_Witness ==
    /\ res.op = "full_name"
    /\ Len(ent) = 3
    /\ ent[2].name = Some(NameCc) /\ ent[3].name = Some(NameCpp)
    /\ ent[1].name = Some(NameF)
    /\ res.out = <<NameCc, NameF>>

\* ------------------------------------------------ the events of the stream

\* The number of Input events returned so far.
Returns == Cardinality({j \in 1..Len(out) : ~synth[j]})

\* The returned event o is the Input event in, as it is or rewritten in
\* place: a text run stays a text run, a link or image keeps all but its
\* destination, a heading keeps its level.
Rewritten(in, o) ==
    IF in.type = "Text" THEN o.type = "Text"
    ELSE IF IsStart(in, "Link") \/ IsStart(in, "Image")
    THEN o.type = "Start" /\ o.tag = [in.tag EXCEPT !.dest = o.tag.dest]
    ELSE IF IsStart(in, "Heading")
    THEN /\ IsStart(o, "Heading")
         /\ o.tag = [in.tag EXCEPT !.frag = o.tag.frag,
                                   !.classes = o.tag.classes]
    ELSE o = in

\* C14: the returned events that are not synthetic are the Input events in
\* their order, one for one, as they are or rewritten in place; the events
\* held by the lookahead cache and the parser are always exactly the Input
\* events not yet returned, whatever was peeked or scanned; the stream ends
\* only when every Input event was returned.
C14_PeekKeepsEvents ==
    /\ Returns <= Len(Input)
    /\ \A i \in 1..Len(out) :
          ~synth[i] => Rewritten(Input[InputIndex(i)], out[i])
    /\ iter.cache \o iter.src = SubSeq(Input, Returns + 1, Len(Input))
    /\ Len(iter.cache) <= SIZE
    /\ mdone => Returns = Len(Input)

\* With style qna the stream ended after a heading got a synthesized anchor
\* from the lookahead window and a synthetic quote block was closed on a
\* peeked level-2 heading start, which was then returned.
C14_Witness ==
    /\ StyleQnA /\ mdone
    /\ Returns = Len(Input)
    /\ \E i \in 1..Len(out) :
          /\ IsStart(out[i], "Heading")
          /\ ~Input[InputIndex(i)].tag.frag.some
          /\ out[i].tag.frag.some
    /\ \E j \in 1..(Len(out) - 1) :
          SynthEnd(j) /\ IsH2Start(out[j + 1])

\* ------------------------------------------------- the front-matter block

Dashes == <<"-", "-", "-">>

\* str::trim_start
RECURSIVE TrimStart(_)
TrimStart(s) ==
    IF Len(s) > 0 /\ IsWhitespace(Head(s)) THEN TrimStart(Tail(s)) ELSE s

\* str::find: the position of the first occurrence of p in s, 0 for none.
Find(s, p) ==
    LET hits == {i \in 1..(Len(s) - Len(p) + 1) :
                    SubSeq(s, i, i + Len(p) - 1) = p}
    IN  IF hits = {} THEN 0
        ELSE CHOOSE i \in hits : \A j \in hits : i <= j

\* Lines a front-matter block is written with: the keys of Metadata, a
\* style that parse_style rejects, and a key Metadata does not have.
LineTitle == <<"t", "i", "t", "l", "e", ":", " ", "T", "\n">>
LineIcon == <<"i", "c", "o", "n", ":", " ", "i", "\n">>
LineOrder == <<"o", "r", "d", "e", "r", ":", " ", "3", "\n">>
LineDefault ==
    <<"s", "t", "y", "l", "e", ":", " ", "d", "e", "f", "a", "u", "l", "t", "\n">>
LineQnA == <<"s", "t", "y", "l", "e", ":", " ", "q", "n", "a", "\n">>
LineBadStyle == <<"s", "t", "y", "l", "e", ":", " ", "x", "\n">>
LineUnknown == <<"f", "o", "o", ":", " ", "1", "\n">>

KeyTitle == <<"t", "i", "t", "l", "e">>
KeyDescription ==
    <<"d", "e", "s", "c", "r", "i", "p", "t", "i", "o", "n">>
KeyIcon == <<"i", "c", "o", "n">>
KeyOrder == <<"o", "r", "d", "e", "r">>
KeyStyle == <<"s", "t", "y", "l", "e">>
ValueDefault == <<"d", "e", "f", "a", "u", "l", "t">>
ValueQnA == <<"q", "n", "a">>

\* A line "key: value", or "key:" for a null value, of a block mapping; a
\* line without a colon, or one that starts with whitespace, is none.
YamlEntry(line) ==
    LET colon == Find(line, <<":", " ">>)
    IN  IF IsWhitespace(line[1]) THEN [ok |-> FALSE]
        ELSE IF colon > 1
        THEN [ok |-> TRUE, key |-> SubSeq(line, 1, colon - 1),
              val |-> IF colon + 2 > Len(line) THEN None
                      ELSE Some(SubSeq(line, colon + 2, Len(line)))]
        ELSE IF Len(line) > 1 /\ line[Len(line)] = ":"
        THEN [ok |-> TRUE, key |-> SubSeq(line, 1, Len(line) - 1),
              val |-> None]
        ELSE [ok |-> FALSE]

\* str::parse::<usize> of a text of decimal digits.
RECURSIVE ParseUsize(_)
ParseUsize(t) ==
    IF Len(t) = 0 THEN 0
    ELSE 10 * ParseUsize(SubSeq(t, 1, Len(t) - 1))
         + ((CHOOSE d \in 1..10 : Digits[d] = t[Len(t)]) - 1)

\* parse_style (markdown.rs:17-26)
ParseStyle(t) ==
    IF t = ValueDefault THEN [ok |-> TRUE, style |-> "Default"]
    ELSE IF t = ValueQnA THEN [ok |-> TRUE, style |-> "QnA"]
    ELSE [ok |-> FALSE]

\* serde_yaml::from_str into Option<Metadata> (markdown.rs:28-36), for text
\* of unindented lines "key: value": an empty text is no metadata; a line
\* that is no entry, a key of Metadata given twice, a style that
\* parse_style rejects or that is null, and an order that is no number are
\* errors; keys Metadata does not have are ignored; a key left out or null
\* is None, and the style left out is the default.
FromStr(str) ==
    LET lines == SelectSeq(Split(str, "\n"),
                     LAMBDA l : \E k \in 1..Len(l) : ~IsWhitespace(l[k]))
        known == {KeyTitle, KeyDescription, KeyIcon, KeyOrder, KeyStyle}
        has(k) == \E i \in 1..Len(lines) : YamlEntry(lines[i]).key = k
        at(k) == YamlEntry(
                    lines[CHOOSE i \in 1..Len(lines) :
                              YamlEntry(lines[i]).key = k]).val
        field(k) == IF has(k) THEN at(k) ELSE None
    IN  IF lines = <<>> THEN Yaml(None)
        ELSE IF \E i \in 1..Len(lines) : ~YamlEntry(lines[i]).ok
        THEN BadYaml
        ELSE IF \E i, j \in 1..Len(lines) :
                   /\ i # j
                   /\ YamlEntry(lines[i]).key = YamlEntry(lines[j]).key
                   /\ YamlEntry(lines[i]).key \in known
        THEN BadYaml
        ELSE IF has(KeyStyle)
                /\ (~at(KeyStyle).some \/ ~ParseStyle(at(KeyStyle).val).ok)
        THEN BadYaml
        ELSE IF field(KeyOrder).some
                /\ \E k \in 1..Len(field(KeyOrder).val) :
                      \A d \in 1..10 : Digits[d] # field(KeyOrder).val[k]
        THEN BadYaml
        ELSE Yaml(Some(
                 [title |-> field(KeyTitle),
                  description |-> field(KeyDescription),
                  icon |-> field(KeyIcon),
                  order |-> IF field(KeyOrder).some
                            THEN Some(ParseUsize(field(KeyOrder).val))
                            ELSE None,
                  style |-> IF has(KeyStyle)
                            THEN ParseStyle(at(KeyStyle).val).style
                            ELSE "Default"]))

\* parse_markdown_metadata on the characters of the document
\* (markdown.rs:47-66); doc is shadowed by its trimmed text without the
\* opening delimiter before the closing delimiter is looked for.
ParseMetadataText(doc) ==
    IF ~StartsWith(TrimStart(doc), Dashes)
    THEN [panic |-> FALSE, text |-> doc, meta |-> None]
    ELSE LET stripped == SubSeq(TrimStart(doc), Len(Dashes) + 1,
                                Len(TrimStart(doc)))
             metadata_end == Find(stripped, Dashes)
             parsed == FromStr(SubSeq(stripped, 1, metadata_end - 1))
         IN  IF metadata_end = 0
             THEN [panic |-> FALSE, text |-> stripped, meta |-> None]
             ELSE IF ~parsed.ok THEN [panic |-> TRUE]
             ELSE [panic |-> FALSE,
                   text |-> SubSeq(stripped, metadata_end + Len(Dashes),
                                   Len(stripped)),
                   meta |-> parsed.meta]

\* Most lines between the delimiters.
MaxLines == 2

\* Documents: optional leading whitespace, an opening delimiter or none,
\* one to MaxLines lines, a closing delimiter or none, and the rest.
FrontTexts ==
    { lead \o open \o mid \o close \o rest :
        lead \in {<<>>, <<"\n">>, <<" ", "\n">>},
        open \in {<<>>, Dashes},
        mid \in DocsOf({LineTitle, LineIcon, LineOrder, LineDefault, LineQnA,
                       LineBadStyle, LineUnknown}, MaxLines) \ {<<>>},
        close \in {<<>>, Dashes},
        rest \in {<<>>, <<"b">>, <<"b">> \o Dashes} }

FrontInit ==
    /\ text \in FrontTexts
    /\ default_title = None
    /\ extracted = None
    /\ cfg = IdleCfg /\ ResolverIdle /\ RunIdle /\ StreamIdle

\* parse_markdown_metadata(text) is called and returns or panics.
ParseFront ==
    /\ ~extracted.some
    /\ extracted' = Some(ParseMetadataText(text))
    /\ UNCHANGED <<text, default_title, cfg, rvars, bvars, mvars>>

FrontNext == ParseFront

SpecFront == FrontInit /\ [][FrontNext]_vars

\* Where the opening delimiter starts when only whitespace precedes it, 0
\* when the document does not begin with one.
OpenAt(d) ==
    LET at == {a \in 1..Len(d) :
                  /\ \A k \in 1..(a - 1) : IsWhitespace(d[k])
                  /\ a + 2 <= Len(d) /\ SubSeq(d, a, a + 2) = Dashes}
    IN  IF at = {} THEN 0 ELSE CHOOSE a \in at : \A b \in at : a <= b

\* Where the first closing delimiter after the opening one starts, 0 for
\* none.
CloseAt(d) ==
    LET at == {b \in (OpenAt(d) + 3)..(Len(d) - 2) :
                  SubSeq(d, b, b + 2) = Dashes}
    IN  IF OpenAt(d) = 0 \/ at = {} THEN 0
        ELSE CHOOSE b \in at : \A c \in at : b <= c

\* C15: when the document begins, after whitespace, with a block between
\* two delimiters, the text between them is parsed, the call panics when it
\* does not parse, and otherwise returns its metadata and the text after
\* the closing delimiter; when there is no complete block, the call returns
\* no metadata and the whole document unchanged.
C15_FrontMatter ==
    extracted.some =>
        IF CloseAt(text) > 0
        THEN LET y == FromStr(SubSeq(text, OpenAt(text) + 3,
                                     CloseAt(text) - 1))
             IN  IF ~y.ok THEN extracted.val.panic
                 ELSE /\ ~extracted.val.panic
                      /\ extracted.val.meta = y.meta
                      /\ extracted.val.text =
                            SubSeq(text, CloseAt(text) + 3, Len(text))
        ELSE /\ ~extracted.val.panic
             /\ extracted.val.meta = None
             /\ extracted.val.text = text

\* ------------------------------------------------- nesting of the output

\* The start events of evs left unmatched after its first i - 1 events,
\* innermost last, when every end event so far matched the innermost one by
\* its kind of tag; <<"mismatch">> after an end event that did not.
RECURSIVE Unmatched(_, _, _)
Unmatched(evs, i, stack) ==
    IF i > Len(evs) THEN stack
    ELSE IF evs[i].type = "Start"
    THEN Unmatched(evs, i + 1, Append(stack, evs[i].tag.tag))
    ELSE IF evs[i].type = "End"
    THEN IF Len(stack) > 0 /\ stack[Len(stack)] = evs[i].tag.tag
         THEN Unmatched(evs, i + 1, SubSeq(stack, 1, Len(stack) - 1))
         ELSE <<"mismatch">>
    ELSE Unmatched(evs, i + 1, stack)

WellNested(evs) == Unmatched(evs, 1, <<>>) # <<"mismatch">>

\* C16: for a well-nested Input, every end event returned so far matches
\* the most recent unmatched start event by its kind of tag; a synthetic
\* quote-block start is returned only with no synthetic quote block open
\* and a synthetic end only with one open; and when the stream has ended
\* nothing is left open.
C16_OutputWellNested ==
    WellNested(Input) =>
        /\ WellNested(out)
        /\ \A i \in 1..Len(out) :
              /\ SynthStart(i) => OpenQuotes(i) = 0
              /\ SynthEnd(i) => OpenQuotes(i) = 1
        /\ mdone =>
              /\ OpenQuotes(Len(out) + 1) = 0
              /\ Unmatched(out, 1, <<>>) = <<>>

====
